---- MODULE Spec2Model ----
(***************************************************************************)
(* Model of static/script.js, the page script of the voice-commanded       *)
(* shopping list: the speech-recognition callbacks, the mic button, the    *)
(* promise chains of the four backend requests and the three list views.   *)
(*                                                                         *)
(* Every handler of the script runs to completion on the UI thread, so     *)
(* each handler is one action.  A fetch is a record in `net` from the      *)
(* moment it is issued until one of its promise callbacks has run.         *)
(*                                                                         *)
(* The TLA+ lexer takes ASCII only: the emoji that open the status texts   *)
(* and the button labels of the script are written as ASCII tags:          *)
(*   [mic] U+1F399  [wait] U+23F3  [stop] U+1F6D1  [micro] U+1F3A4         *)
(*   [warn] U+26A0  [heard] U+1F4E5  [ok] U+2705  [think] U+1F914          *)
(*   [x] U+274C     [found] U+1F50E                                        *)
(***************************************************************************)
EXTENDS Integers, Sequences, FiniteSets, TLC

\* ------------------------------------------------------------ bounds
\* Recognition sessions in which the engine hears something, in one run.
MaxTranscripts == 1
\* Results the engine delivers in one session, if its configuration lets it
\* deliver more than one.
MaxResults == 2
\* Calls of searchProducts in a run of SearchSpec.
MaxSearches == 2

\* ------------------------------------------------ engine configuration
ContinuousOn == TRUE

\* recognition.continuous = false
continuous == FALSE
\* recognition.interimResults = false
interimResults == FALSE

\* ------------------------------------------------------- fixed texts
ListeningStatus == "[mic] Listening..."
ProcessingStatus == "[wait] Processing..."
StopLabel == "[stop] Stop"
IdleLabel == "[micro] Start Listening"
TryingSearchStatus == "[think] Trying search instead..."
CommandFailedStatus == "[x] Failed to process voice command."
SearchFailedStatus == "[x] Search failed."
NoResultsEntry == "No results found."
NoItemsEntry == "No items yet."
NoSuggestionsEntry == "No suggestions available."
SmartHeading == "Smart Suggestions:"
SubstituteHeading == "Suggested substitutes:"
\* The markup of the page is not part of the sources: the text of the
\* status line and of the button before any handler has run.
InitialStatus == ""
InitialLabel == IdleLabel

ErrorStatus(e) == "[warn] Error: " \o e
HeardStatus(t) == "[heard] Heard: \"" \o t \o "\""
SuccessStatus(m) == "[ok] " \o m
FoundStatus(n) == "[found] Found " \o ToString(n) \o " result(s)."
NothingFoundStatus(t) == "[x] Nothing found for: \"" \o t \o "\""

\* ------------------------------------------------------ input domains
\* What the engine hears, as sequences of characters (before trim()).
Utterances == { <<" ", "a", "d", "d", " ", "t", "e", "a", " ">> }
ErrorCodes == {"no-speech", "network"}
Languages == {"en", "es"}
ItemNames == {"milk"}
Milk == [name |-> "milk", brand |-> "Acme", price |-> 2990]
Tea == [name |-> "tea", brand |-> "Leaf", price |-> 500]
\* /search answers: <<status, found_items>>
SearchAnswers ==
    { <<"success", <<>> >>, <<"success", <<Tea, Milk>> >>,
      <<"error", <<>> >>, <<"error", <<Milk>> >> }
SubstituteChoices == { <<"oat milk">> }
\* /suggestions answers: <<seasonal_suggestions, frequently_bought>>
SuggestionAnswers ==
    { << <<>>, <<>> >>, << <<"mango", "corn">>, <<"bread">> >> }

\* ------------------------------------------------------ pure helpers
IsSpace(c) == c = " "

RECURSIVE TrimLeft(_)
TrimLeft(s) ==
    IF s # <<>> /\ IsSpace(Head(s)) THEN TrimLeft(Tail(s)) ELSE s

RECURSIVE TrimRight(_)
TrimRight(s) ==
    IF s # <<>> /\ IsSpace(s[Len(s)])
    THEN TrimRight(SubSeq(s, 1, Len(s) - 1))
    ELSE s

RECURSIVE Join(_)
Join(s) == IF s = <<>> THEN "" ELSE Head(s) \o Join(Tail(s))

\* String.prototype.trim() of the transcript
Trim(s) == Join(TrimRight(TrimLeft(s)))

\* recognition.lang from the language control
LocaleOf(v) == IF v = "es" THEN "es-ES" ELSE "en-US"

Pad2(n) == IF n < 10 THEN "0" \o ToString(n) ELSE ToString(n)

\* Number.prototype.toFixed(2) of a price given in thousandths
ToFixed2(p) ==
    LET cents == (p + 5) \div 10
    IN  ToString(cents \div 100) \o "." \o Pad2(cents % 100)

ItemEntry(item) ==
    item.name \o " (" \o ToString(item.quantity) \o ")"

ProductEntry(p) ==
    p.name \o " (" \o p.brand \o ") - $" \o ToFixed2(p.price)

\* items.forEach(...) of refreshShoppingList: one <li> per item, appended
RECURSIVE AppendItems(_, _)
AppendItems(container, items) ==
    IF items = <<>> THEN container
    ELSE AppendItems(Append(container, ItemEntry(Head(items))), Tail(items))

\* items.forEach(...) of updateSuggestions: li.textContent = item
RECURSIVE AppendSuggestions(_, _)
AppendSuggestions(container, items) ==
    IF items = <<>> THEN container
    ELSE AppendSuggestions(Append(container, Head(items)), Tail(items))

\* results.forEach(...) of updateSearchResults
RECURSIVE AppendProducts(_, _)
AppendProducts(container, results) ==
    IF results = <<>> THEN container
    ELSE AppendProducts(Append(container, ProductEntry(Head(results))),
                        Tail(results))

\* ------------------------------------------------------------- state
VARIABLES
    disabled,         \* startMicButton.disabled
    alerts,           \* alert() calls so far
    listening,        \* let listening
    statusMessage,    \* statusMessage.textContent
    buttonLabel,      \* startMicButton.textContent
    languageSelect,   \* languageSelect.value
    engine,           \* the recognition engine's session
    shoppingList,     \* text of the <li> children of #shoppingList
    suggestionsList,  \* text of the <li> children of #suggestionsList
    searchResults,    \* text of the <li> children of #searchResults
    net,              \* fetches whose promise chain has not run yet
    nextId,           \* identity of the next fetch
    items,            \* backend: the shopping items
    ver,              \* backend: number of updates applied to items
    tx                \* history: one record per transcript delivered

vars == << disabled, alerts, listening, statusMessage, buttonLabel,
           languageSelect, engine, shoppingList,
           suggestionsList, searchResults, net, nextId, items, ver, tx >>

page == << disabled, alerts, listening, statusMessage, buttonLabel,
           languageSelect >>
views == << shoppingList, suggestionsList, searchResults >>
backend == << items, ver >>

\* The session of the recognition engine: started by start() until the end
\* event; whether the start event has fired; the code of the error event,
\* if one has fired; the results delivered; the language the session
\* recognises, which is recognition.lang as the click listener sets it
\* right before start() (nothing else reads recognition.lang).  last is
\* the history of the session: the click or callback that acted on it last.
IdleEngine ==
    [started |-> FALSE, startFired |-> FALSE, error |-> "", nres |-> 0,
     lang |-> "", last |-> "none"]

NoResp ==
    [status |-> "", message |-> "", hasSubs |-> FALSE, subs |-> <<>>,
     items |-> <<>>, ver |-> 0, found |-> <<>>, seasonal |-> <<>>,
     frequent |-> <<>>]

\* fetch(url, {body: JSON.stringify({text, lang})}): the request on the wire.
\* tr is the transcript the fetch belongs to (0: the initial loads), seen
\* the backend version the page had been told of when it issued the fetch.
\* stage: "sent", then "answered" (resp is the parsed body) or "rejected"
\* (the fetch or res.json() failed), until the promise callback runs.
Fetch(id, kind, text, lang, tr, seen) ==
    [id |-> id, kind |-> kind, text |-> text, lang |-> lang, tr |-> tr,
     seen |-> seen, stage |-> "sent", resp |-> NoResp]

\* The history of a transcript: the bodies of its POSTs and the number of its
\* fetches of each kind, how /voice-command ended for it, the status text
\* its handlers wrote last, whether one of them changed the list or the
\* suggestions view or asked for /list, and the backend version it made.
NewTx ==
    [text |-> "", lang |-> "", nVC |-> 0, nSearch |-> 0, nList |-> 0,
     searchText |-> "", searchLang |-> "", vc |-> "pending", status |-> "",
     touched |-> FALSE, ver |-> 0]

\* refreshShoppingList(); loadSuggestions(); at the end of the script
InitialLoads ==
    { Fetch(1, "list", "", "", 0, 0), Fetch(2, "suggestions", "", "", 0, 0) }

\* A script that alerts without disabling the button.
InitLeavesEnabled ==
    /\ \E supported \in BOOLEAN :
          /\ disabled = FALSE
          /\ alerts = IF supported THEN 0 ELSE 1
    /\ listening = FALSE
    /\ statusMessage = InitialStatus
    /\ buttonLabel = InitialLabel
    /\ languageSelect = "en"
    /\ engine = IdleEngine
    /\ shoppingList = <<>>
    /\ suggestionsList = <<>>
    /\ searchResults = <<>>
    /\ net = InitialLoads
    /\ nextId = 3
    /\ items = << [name |-> "milk", quantity |-> 2] >>
    /\ ver = 0
    /\ tx = <<>>

\* The state once the script has run: with or without a recognition
\* constructor in the browser.
Init ==
    /\ \E supported \in BOOLEAN :
          /\ disabled = ~supported
          /\ alerts = IF supported THEN 0 ELSE 1
    /\ listening = FALSE
    /\ statusMessage = InitialStatus
    /\ buttonLabel = InitialLabel
    /\ languageSelect = "en"
    /\ engine = IdleEngine
    /\ shoppingList = <<>>
    /\ suggestionsList = <<>>
    /\ searchResults = <<>>
    /\ net = InitialLoads
    /\ nextId = 3
    /\ items = << [name |-> "milk", quantity |-> 2] >>
    /\ ver = 0
    /\ tx = <<>>

\* ----------------------------------------------------- history
\* The history of transcript f.tr once fetch f has been issued for it.
Issued(txs, f) ==
    IF f.tr = 0 THEN txs
    ELSE [txs EXCEPT ![f.tr] =
            CASE f.kind = "vc" ->
                   [@ EXCEPT !.nVC = @ + 1, !.text = f.text, !.lang = f.lang]
              [] f.kind = "search" ->
                   [@ EXCEPT !.nSearch = @ + 1, !.searchText = f.text,
                             !.searchLang = f.lang]
              [] f.kind = "list" ->
                   [@ EXCEPT !.nList = @ + 1, !.touched = TRUE]
              [] OTHER -> @]

\* The history of transcript t once a handler working for it has ended
\* with the status line reading status, having changed the list or the
\* suggestions view or not.
Handled(txs, t, status, changed) ==
    IF t = 0 THEN txs
    ELSE [txs EXCEPT ![t].status = status, ![t].touched = @ \/ changed]

\* The history of transcript t once a callback working for it that does not
\* write the status line has run.
Rendered(txs, t, changed) ==
    IF t = 0 THEN txs
    ELSE [txs EXCEPT ![t].touched = @ \/ changed]

\* A step changed what the shopping-list view or the suggestions view shows.
ViewsChanged ==
    shoppingList' # shoppingList \/ suggestionsList' # suggestionsList

\* ------------------------------------------ the language control
\* The user picks the other option; the script has no listener for it.
ChangeLanguage(v) ==
    /\ v # languageSelect
    /\ languageSelect' = v
    /\ UNCHANGED << disabled, alerts, listening, statusMessage, buttonLabel,
                    engine, views, net, nextId, backend, tx >>

\* ------------------------------------------------ the mic button
\* recognition.stop(): asks a started session to finish; no effect otherwise
EngineStop(e) ==
    IF e.started THEN [e EXCEPT !.last = "click:stop"] ELSE e

\* recognition.start() throws InvalidStateError, changing nothing, when a
\* session is started already
StartThrows(e) == e.started

\* recognition.start(): begins a session in the language set
EngineStart(e, lang) ==
    IF StartThrows(e) THEN [e EXCEPT !.last = "click:start threw"]
    ELSE [started |-> TRUE, startFired |-> FALSE, error |-> "", nres |-> 0,
          lang |-> lang, last |-> "click:start"]

\* A listener that starts recognition whatever the listening flag says.
ClickAlwaysStarts ==
    /\ ~disabled
    /\ engine' = EngineStart(engine, LocaleOf(languageSelect))
    /\ UNCHANGED << disabled, alerts, listening, statusMessage, buttonLabel,
                    languageSelect, views, net, nextId, backend, tx >>

\* the click listener of startMicButton; a disabled button gets no click
Click ==
    /\ ~disabled
    /\ IF listening
       THEN engine' = EngineStop(engine)
       ELSE engine' = EngineStart(engine, LocaleOf(languageSelect))
    /\ UNCHANGED << disabled, alerts, listening, statusMessage, buttonLabel,
                    languageSelect, views, net, nextId, backend, tx >>

\* ------------------------------------------ recognition callbacks
\* The engine fires start once it listens, at most one error, and results
\* only after start and while no error has fired; with continuous = false
\* and interimResults = false a session has one result at most.  Every
\* session ends with the end event, whatever happened in it.
MayFireStart(e) == e.started /\ ~e.startFired /\ e.error = ""
MayFireResult(e) ==
    /\ e.started /\ e.startFired /\ e.error = ""
    /\ (continuous \/ interimResults \/ e.nres = 0)
MayFireError(e) == e.started /\ e.error = "" /\ e.nres = 0
MayFireEnd(e) == e.started

\* recognition.onstart
OnStart ==
    /\ MayFireStart(engine)
    /\ engine' = [engine EXCEPT !.startFired = TRUE, !.last = "onstart"]
    /\ statusMessage' = ListeningStatus
    /\ buttonLabel' = StopLabel
    /\ listening' = TRUE
    /\ UNCHANGED << disabled, alerts, languageSelect, views,
                    net, nextId, backend, tx >>

\* recognition.onend
OnEnd ==
    /\ MayFireEnd(engine)
    /\ engine' = IdleEngine
    /\ statusMessage' = ProcessingStatus
    /\ buttonLabel' = IdleLabel
    /\ listening' = FALSE
    /\ UNCHANGED << disabled, alerts, languageSelect, views,
                    net, nextId, backend, tx >>

\* recognition.onerror
OnError(code) ==
    /\ MayFireError(engine)
    /\ engine' = [engine EXCEPT !.error = code, !.last = "onerror"]
    /\ statusMessage' = ErrorStatus(code)
    /\ listening' = FALSE
    /\ UNCHANGED << disabled, alerts, buttonLabel, languageSelect,
                    views, net, nextId, backend, tx >>

\* const lang = languageSelect.value, given the control and the session
CommandLang(selected, locale) == selected

\* processVoiceCommand(text): reads the language control, posts the command
processVoiceCommand(text) ==
    LET lang == CommandLang(languageSelect, engine.lang)
        f == Fetch(nextId, "vc", text, lang, Len(tx) + 1, 0)
    IN  /\ net' = net \cup {f}
        /\ nextId' = nextId + 1
        /\ tx' = Issued(Handled(Append(tx, NewTx), Len(tx) + 1,
                                statusMessage', FALSE), f)

\* recognition.onresult
OnResult(utterance) ==
    /\ MayFireResult(engine)
    /\ engine.nres < MaxResults
    /\ engine.nres = 0 => Len(tx) < MaxTranscripts
    /\ engine' = [engine EXCEPT !.nres = @ + 1, !.last = "onresult"]
    /\ LET transcript == Trim(utterance)
       IN  /\ statusMessage' = HeardStatus(transcript)
           /\ processVoiceCommand(transcript)
    /\ UNCHANGED << disabled, alerts, listening, buttonLabel, languageSelect,
                    views, backend >>

\* ------------------------------------------------------ the backend
\* The server is not part of the sources.  It resolves a command as add,
\* as remove or as neither, answers /list with the items it holds at that
\* moment, and numbers the updates of its item set.
HasItem(its, n) == \E i \in 1..Len(its) : its[i].name = n

RECURSIVE AddItem(_, _)
AddItem(its, n) ==
    IF its = <<>> THEN << [name |-> n, quantity |-> 1] >>
    ELSE IF Head(its).name = n
         THEN << [Head(its) EXCEPT !.quantity = @ + 1] >> \o Tail(its)
         ELSE << Head(its) >> \o AddItem(Tail(its), n)

RECURSIVE RemoveItem(_, _)
RemoveItem(its, n) ==
    IF its = <<>> THEN <<>>
    ELSE IF Head(its).name = n THEN RemoveItem(Tail(its), n)
         ELSE << Head(its) >> \o RemoveItem(Tail(its), n)

Answer(r, resp) ==
    (net \ {r}) \cup { [r EXCEPT !.stage = "answered", !.resp = resp] }

BackendAdd(r, n, hasSubs, subs) ==
    /\ r.kind = "vc" /\ r.stage = "sent"
    /\ items' = AddItem(items, n)
    /\ ver' = ver + 1
    /\ net' = Answer(r, [NoResp EXCEPT !.status = "success",
                                       !.message = "Added " \o n,
                                       !.hasSubs = hasSubs, !.subs = subs,
                                       !.ver = ver'])
    /\ tx' = [tx EXCEPT ![r.tr].ver = ver']
    /\ UNCHANGED << page, engine, views, nextId >>

BackendRemove(r, n) ==
    /\ r.kind = "vc" /\ r.stage = "sent"
    /\ HasItem(items, n)
    /\ items' = RemoveItem(items, n)
    /\ ver' = ver + 1
    /\ net' = Answer(r, [NoResp EXCEPT !.status = "success",
                                       !.message = "Removed " \o n,
                                       !.ver = ver'])
    /\ tx' = [tx EXCEPT ![r.tr].ver = ver']
    /\ UNCHANGED << page, engine, views, nextId >>

BackendNoMatch(r) ==
    /\ r.kind = "vc" /\ r.stage = "sent"
    /\ net' = Answer(r, [NoResp EXCEPT !.status = "error",
                                       !.message = "Not understood"])
    /\ UNCHANGED << page, engine, views, nextId, backend, tx >>

BackendSearch(r, status, found) ==
    /\ r.kind = "search" /\ r.stage = "sent"
    /\ net' = Answer(r, [NoResp EXCEPT !.status = status, !.found = found])
    /\ UNCHANGED << page, engine, views, nextId, backend, tx >>

BackendList(r) ==
    /\ r.kind = "list" /\ r.stage = "sent"
    /\ net' = Answer(r, [NoResp EXCEPT !.items = items, !.ver = ver])
    /\ UNCHANGED << page, engine, views, nextId, backend, tx >>

BackendSuggestions(r, seasonal, frequent) ==
    /\ r.kind = "suggestions" /\ r.stage = "sent"
    /\ net' = Answer(r, [NoResp EXCEPT !.seasonal = seasonal,
                                       !.frequent = frequent])
    /\ UNCHANGED << page, engine, views, nextId, backend, tx >>

\* The fetch fails on the network, or its body does not parse as JSON: the
\* promise of the chain rejects, whatever the backend did with the request.
Reject(r) ==
    /\ r.stage \in {"sent", "answered"}
    /\ net' = (net \ {r}) \cup { [r EXCEPT !.stage = "rejected",
                                           !.resp = NoResp] }
    /\ UNCHANGED << page, engine, views, nextId, backend, tx >>

\* ------------------------------------------------------ renderers
\* A renderer that keeps what the container held.
updateSuggestionsNoClear(its, heading) ==
    LET kept == IF heading # "" THEN Append(suggestionsList, heading)
                ELSE suggestionsList
    IN  IF Len(its) = 0
        THEN Append(kept, NoSuggestionsEntry)
        ELSE AppendSuggestions(kept, its)

\* updateSuggestions(items, heading)
updateSuggestions(its, heading) ==
    LET cleared == IF heading # "" THEN << heading >> ELSE <<>>
    IN  IF Len(its) = 0
        THEN Append(cleared, NoSuggestionsEntry)
        ELSE AppendSuggestions(cleared, its)

\* A renderer that does not clear the container first.
updateSearchResultsNoClear(results) == AppendProducts(searchResults, results)

\* updateSearchResults(results)
updateSearchResults(results) == AppendProducts(<<>>, results)

\* A renderer without the branch for an empty list.
RenderShoppingListNoPlaceholder(its) == AppendItems(<<>>, its)

\* the .then((items) => ...) of refreshShoppingList, on the container
RenderShoppingList(its) ==
    LET cleared == <<>>
    IN  IF Len(its) = 0 THEN << NoItemsEntry >> ELSE AppendItems(cleared, its)

\* the branches of the .then((data) => ...) of searchProducts
SearchMatched(data) == data.status = "success" /\ Len(data.found) > 0

\* A no-match branch that adds the placeholder to what the container holds.
SearchResultsAppended(old, data) ==
    IF SearchMatched(data)
    THEN updateSearchResults(data.found)
    ELSE Append(old, NoResultsEntry)

SearchResultsAfter(old, data) ==
    IF SearchMatched(data)
    THEN updateSearchResults(data.found)
    ELSE << NoResultsEntry >>

SearchStatusAfter(text, data) ==
    IF SearchMatched(data)
    THEN FoundStatus(Len(data.found))
    ELSE NothingFoundStatus(text)

\* const allSuggestions = [...seasonal_suggestions, ...frequently_bought]
AllSuggestions(data) == data.seasonal \o data.frequent

\* ------------------------------------------------- /voice-command
\* A searchProducts that reads the language control again.
searchProductsSelected(text, lang, tr) ==
    Fetch(nextId, "search", text, languageSelect, tr, 0)

\* searchProducts(text, lang): the fetch it issues for transcript tr
searchProducts(text, lang, tr) == Fetch(nextId, "search", text, lang, tr, 0)

\* refreshShoppingList(): the fetch it issues
refreshShoppingList(tr, seen) == Fetch(nextId, "list", "", "", tr, seen)

\* A success branch that forgets to refresh the list.
CommandSucceededNoRefresh(r) ==
    /\ r.kind = "vc" /\ r.stage = "answered"
    /\ r.resp.status = "success"
    /\ statusMessage' = SuccessStatus(r.resp.message)
    /\ suggestionsList' =
          IF r.resp.hasSubs
          THEN updateSuggestions(r.resp.subs, SubstituteHeading)
          ELSE suggestionsList
    /\ UNCHANGED << disabled, alerts, listening, buttonLabel, languageSelect,
                    engine, shoppingList, searchResults, backend, nextId >>
    /\ net' = net \ {r}
    /\ tx' = Handled([tx EXCEPT ![r.tr].vc = "success"], r.tr,
                     statusMessage', ViewsChanged)

\* .then((data) => ...) of processVoiceCommand, data.status === "success"
CommandSucceeded(r) ==
    /\ r.kind = "vc" /\ r.stage = "answered"
    /\ r.resp.status = "success"
    /\ statusMessage' = SuccessStatus(r.resp.message)
    /\ suggestionsList' =
          IF r.resp.hasSubs
          THEN updateSuggestions(r.resp.subs, SubstituteHeading)
          ELSE suggestionsList
    /\ UNCHANGED << disabled, alerts, listening, buttonLabel, languageSelect,
                    engine, shoppingList, searchResults, backend >>
    /\ LET f == refreshShoppingList(r.tr, r.resp.ver)
       IN  /\ net' = (net \ {r}) \cup {f}
           /\ nextId' = nextId + 1
           /\ tx' = Issued(Handled([tx EXCEPT ![r.tr].vc = "success"], r.tr,
                                   statusMessage', ViewsChanged), f)

\* .then((data) => ...) of processVoiceCommand, any other status
CommandNotMatched(r) ==
    /\ r.kind = "vc" /\ r.stage = "answered"
    /\ r.resp.status # "success"
    /\ statusMessage' = TryingSearchStatus
    /\ UNCHANGED << disabled, alerts, listening, buttonLabel, languageSelect,
                    engine, views, backend >>
    /\ LET f == searchProducts(r.text, r.lang, r.tr)
       IN  /\ net' = (net \ {r}) \cup {f}
           /\ nextId' = nextId + 1
           /\ tx' = Issued(Handled([tx EXCEPT ![r.tr].vc = "nomatch"], r.tr,
                                   statusMessage', ViewsChanged), f)

\* A catch that refreshes the list as the success branch does.
CommandFailedRefreshes(r) ==
    /\ r.kind = "vc" /\ r.stage = "rejected"
    /\ statusMessage' = CommandFailedStatus
    /\ UNCHANGED << disabled, alerts, listening, buttonLabel, languageSelect,
                    engine, views, backend >>
    /\ LET f == refreshShoppingList(r.tr, 0)
       IN  /\ net' = (net \ {r}) \cup {f}
           /\ nextId' = nextId + 1
           /\ tx' = Issued(Handled([tx EXCEPT ![r.tr].vc = "failed"], r.tr,
                                   statusMessage', ViewsChanged), f)

\* .catch((err) => ...) of processVoiceCommand
CommandFailed(r) ==
    /\ r.kind = "vc" /\ r.stage = "rejected"
    /\ statusMessage' = CommandFailedStatus
    /\ net' = net \ {r}
    /\ UNCHANGED << disabled, alerts, listening, buttonLabel, languageSelect,
                    engine, views, nextId, backend >>
    /\ tx' = Handled([tx EXCEPT ![r.tr].vc = "failed"], r.tr,
                     statusMessage', ViewsChanged)

\* --------------------------------------------------------- /search
\* .then((data) => ...) of searchProducts
SearchAnswered(r) ==
    /\ r.kind = "search" /\ r.stage = "answered"
    /\ searchResults' = SearchResultsAfter(searchResults, r.resp)
    /\ statusMessage' = SearchStatusAfter(r.text, r.resp)
    /\ net' = net \ {r}
    /\ UNCHANGED << disabled, alerts, listening, buttonLabel, languageSelect,
                    engine, shoppingList, suggestionsList,
                    nextId, backend >>
    /\ tx' = Handled(tx, r.tr, statusMessage', ViewsChanged)

\* A catch that tries the search once more.
SearchFailedRetries(r) ==
    /\ r.kind = "search" /\ r.stage = "rejected"
    /\ statusMessage' = SearchFailedStatus
    /\ UNCHANGED << disabled, alerts, listening, buttonLabel, languageSelect,
                    engine, views, backend >>
    /\ LET f == searchProducts(r.text, r.lang, r.tr)
       IN  /\ net' = (net \ {r}) \cup {f}
           /\ nextId' = nextId + 1
           /\ tx' = Issued(Handled(tx, r.tr, statusMessage', ViewsChanged), f)

\* .catch((err) => ...) of searchProducts
SearchFailed(r) ==
    /\ r.kind = "search" /\ r.stage = "rejected"
    /\ statusMessage' = SearchFailedStatus
    /\ net' = net \ {r}
    /\ UNCHANGED << disabled, alerts, listening, buttonLabel, languageSelect,
                    engine, views, nextId, backend >>
    /\ tx' = Handled(tx, r.tr, statusMessage', ViewsChanged)

\* ----------------------------------------------------------- /list
\* .then((items) => ...) of refreshShoppingList
ListAnswered(r) ==
    /\ r.kind = "list" /\ r.stage = "answered"
    /\ shoppingList' = RenderShoppingList(r.resp.items)
    /\ net' = net \ {r}
    /\ UNCHANGED << page, engine, suggestionsList, searchResults, nextId,
                    backend >>
    /\ tx' = Rendered(tx, r.tr, ViewsChanged)

\* refreshShoppingList has no catch: the rejection goes unhandled and the
\* page stays as it was
ListFailed(r) ==
    /\ r.kind = "list" /\ r.stage = "rejected"
    /\ net' = net \ {r}
    /\ UNCHANGED << page, engine, views, nextId, backend, tx >>

\* ---------------------------------------------------- /suggestions
\* .then((data) => ...) of loadSuggestions
SuggestionsAnswered(r) ==
    /\ r.kind = "suggestions" /\ r.stage = "answered"
    /\ suggestionsList' = updateSuggestions(AllSuggestions(r.resp), SmartHeading)
    /\ net' = net \ {r}
    /\ UNCHANGED << page, engine, shoppingList, searchResults, nextId,
                    backend, tx >>

\* loadSuggestions has no catch either
SuggestionsFailed(r) ==
    /\ r.kind = "suggestions" /\ r.stage = "rejected"
    /\ net' = net \ {r}
    /\ UNCHANGED << page, engine, views, nextId, backend, tx >>

\* ------------------------------------------------- specification
Next ==
    \/ Click
    \/ \E v \in Languages : ChangeLanguage(v)
    \/ OnStart
    \/ OnEnd
    \/ \E code \in ErrorCodes : OnError(code)
    \/ \E u \in Utterances : OnResult(u)
    \/ \E r \in net, n \in ItemNames : BackendAdd(r, n, FALSE, <<>>)
    \/ \E r \in net, n \in ItemNames, subs \in SubstituteChoices :
          BackendAdd(r, n, TRUE, subs)
    \/ \E r \in net, n \in ItemNames : BackendRemove(r, n)
    \/ \E r \in net : BackendNoMatch(r)
    \/ \E r \in net, a \in SearchAnswers : BackendSearch(r, a[1], a[2])
    \/ \E r \in net : BackendList(r)
    \/ \E r \in net, a \in SuggestionAnswers :
          BackendSuggestions(r, a[1], a[2])
    \/ \E r \in net : Reject(r)
    \/ \E r \in net : CommandSucceeded(r)
    \/ \E r \in net : CommandNotMatched(r)
    \/ \E r \in net : CommandFailed(r)
    \/ \E r \in net : SearchAnswered(r)
    \/ \E r \in net : SearchFailed(r)
    \/ \E r \in net : ListAnswered(r)
    \/ \E r \in net : ListFailed(r)
    \/ \E r \in net : SuggestionsAnswered(r)
    \/ \E r \in net : SuggestionsFailed(r)

Spec == Init /\ [][Next]_vars

\* ------------------------------------- searchProducts on its own
\* The search promise chain under repeated calls: searchProducts(text, lang)
\* is called as the no-match branch of processVoiceCommand calls it, once
\* per transcript, for transcripts that /voice-command did not resolve.
SearchTexts == {"add tea"}

CallSearch(text, lang) ==
    /\ Len(tx) < MaxSearches
    /\ LET f == searchProducts(text, lang, Len(tx) + 1)
           t == [NewTx EXCEPT !.text = text, !.lang = lang, !.nVC = 1,
                              !.vc = "nomatch",
                              !.status = TryingSearchStatus]
       IN  /\ net' = net \cup {f}
           /\ nextId' = nextId + 1
           /\ tx' = Issued(Append(tx, t), f)
    /\ statusMessage' = TryingSearchStatus
    /\ UNCHANGED << disabled, alerts, listening, buttonLabel, languageSelect,
                    engine, views, backend >>

SearchNext ==
    \/ \E text \in SearchTexts, lang \in Languages : CallSearch(text, lang)
    \/ \E r \in net, a \in SearchAnswers : BackendSearch(r, a[1], a[2])
    \/ \E r \in net : BackendList(r)
    \/ \E r \in net, a \in SuggestionAnswers :
          BackendSuggestions(r, a[1], a[2])
    \/ \E r \in net : Reject(r)
    \/ \E r \in net : SearchAnswered(r)
    \/ \E r \in net : SearchFailed(r)
    \/ \E r \in net : ListAnswered(r)
    \/ \E r \in net : ListFailed(r)
    \/ \E r \in net : SuggestionsAnswered(r)
    \/ \E r \in net : SuggestionsFailed(r)

SearchSpec == Init /\ [][SearchNext]_vars

\* ----------------------------------------------------- properties
\* The promise callback of fetch r runs in this step: r leaves the wire.
Ran(r) == \A q \in net' : q.id # r.id

\* The fetches issued in this step.
NewFetches == { f \in net' : \A q \in net : q.id # f.id }

Transcripts == 1..Len(tx)

\* C1: a transcript whose /voice-command answer parsed with a status other
\* than "success" has exactly one POST /search, whose body carries the text
\* and the lang of its POST /voice-command; a transcript answered with
\* "success" has no POST /search.
C1_SearchForwardsTextAndLang ==
    \A t \in Transcripts :
        /\ tx[t].vc = "nomatch" =>
              /\ tx[t].nSearch = 1
              /\ tx[t].searchText = tx[t].text
              /\ tx[t].searchLang = tx[t].lang
        /\ tx[t].vc = "success" => tx[t].nSearch = 0

\* A command was forwarded to /search after the language control changed.
C1_Witness ==
    \E t \in Transcripts :
        /\ tx[t].vc = "nomatch"
        /\ tx[t].nSearch = 1
        /\ tx[t].lang # languageSelect
        /\ tx[t].text = "add tea"

\* The entries "name (quantity)" of a /list snapshot, in its order.
ShowsSnapshot(list, its) ==
    /\ Len(list) = Len(its)
    /\ \A i \in 1..Len(its) :
          list[i] = its[i].name \o " (" \o ToString(its[i].quantity) \o ")"

\* C2: when the callback of a /voice-command answered "success" with message
\* m runs, the status line becomes "[ok] m" and a GET /list is issued; when
\* the callback of a /list answer that holds items runs, the list view shows
\* one entry "name (quantity)" per item of the snapshot, in order; and the
\* snapshot of a refresh is no older than the update of its command.
C2_SuccessRefreshesList ==
    [][ \A r \in net :
          /\ ( r.kind = "vc" /\ r.stage = "answered"
               /\ r.resp.status = "success" /\ Ran(r) ) =>
                /\ statusMessage' = "[ok] " \o r.resp.message
                /\ \E f \in NewFetches :
                      f.kind = "list" /\ f.stage = "sent" /\ f.tr = r.tr
          /\ ( r.kind = "list" /\ r.stage = "answered"
               /\ Len(r.resp.items) > 0 /\ Ran(r) ) =>
                /\ ShowsSnapshot(shoppingList', r.resp.items)
                /\ r.tr > 0 => r.resp.ver >= tx[r.tr].ver
      ]_vars

\* The list refreshed after "add milk" shows the quantity the command made.
C2_Witness ==
    \E t \in Transcripts :
        /\ tx[t].vc = "success"
        /\ tx[t].status = "[ok] Added milk"
        /\ tx[t].nList = 1
        /\ \A r \in net : r.tr # t
        /\ shoppingList = << "milk (3)" >>

ClickOps == {"click:start", "click:stop", "click:start threw"}

\* C3: a click while listening calls recognition.stop() and not start();
\* when the end event of a session fires, the listening flag becomes false
\* and the button label the idle label.
C3_ToggleWhileListeningStops ==
    [][ /\ ( listening /\ engine'.last # engine.last
             /\ engine'.last \in ClickOps ) =>
                /\ engine'.last = "click:stop"
                /\ engine'.started /\ engine'.lang = engine.lang
        /\ ( engine.started /\ ~engine'.started ) =>
                /\ listening' = FALSE
                /\ buttonLabel' = "[micro] Start Listening"
      ]_vars

\* The mic was toggled while listening, and the session delivered its
\* result after that.
C3_Witness ==
    /\ listening
    /\ engine.last = "click:stop"
    /\ buttonLabel = StopLabel

GenericFailures == { CommandFailedStatus, SearchFailedStatus }

\* C4: whenever the promise chain of a rejected fetch (of any of the four
\* requests) runs, the status line becomes a generic failure message.
C4_EveryFailureIsCaught ==
    [][ \A r \in net :
          ( r.stage = "rejected" /\ Ran(r) ) =>
                statusMessage' \in GenericFailures
      ]_vars

\* C5: a transcript whose handling ended in a failure status had no handler
\* that changed the shopping-list view or the suggestions view, and no GET
\* /list was issued for it.
C5_FailureLeavesViews ==
    \A t \in Transcripts :
        tx[t].status \in GenericFailures =>
            /\ ~tx[t].touched
            /\ tx[t].nList = 0

\* A command went to /search and the search failed, while the initial loads
\* had filled both views.
C5_Witness ==
    \E t \in Transcripts :
        /\ tx[t].status = SearchFailedStatus
        /\ statusMessage = SearchFailedStatus
        /\ tx[t].nSearch = 1
        /\ shoppingList # <<>>
        /\ suggestionsList # <<>>

\* C6: the error event with code e makes listening false and the status
\* line "[warn] Error: e", and no later callback of the same session
\* replaces that text.
C6_ErrorTextStays ==
    [][ /\ ( engine.error = "" /\ engine'.error # "" ) =>
                /\ listening' = FALSE
                /\ statusMessage' = "[warn] Error: " \o engine'.error
        /\ ( engine.error # "" /\ engine' # engine
             /\ statusMessage = "[warn] Error: " \o engine.error ) =>
                statusMessage' = statusMessage
      ]_vars

\* C7: when the callback of a /search answered with status "success" and no
\* found item runs, the search-results container holds exactly the entry
\* "No results found." afterwards, whatever an earlier search left in it.
C7_EmptySearchShowsPlaceholder ==
    [][ \A r \in net :
          ( r.kind = "search" /\ r.stage = "answered" /\ Ran(r)
            /\ r.resp.status = "success" /\ Len(r.resp.found) = 0 ) =>
                searchResults' = << "No results found." >>
      ]_vars

\* An earlier search had rendered its two products, and a later search that
\* found nothing has replaced them.
C7_Witness ==
    \E t, u \in Transcripts :
        /\ tx[t].status = FoundStatus(2)
        /\ tx[u].status = NothingFoundStatus(tx[u].text)
        /\ statusMessage = tx[u].status
        /\ searchResults = << NoResultsEntry >>

\* C8: the callback of a /list answer without items leaves exactly the entry
\* "No items yet." in the shopping-list container, and once a /list answer
\* has been rendered the container is never empty.
C8_EmptyListShowsPlaceholder ==
    [][ /\ \A r \in net :
              ( r.kind = "list" /\ r.stage = "answered" /\ Ran(r) ) =>
                    /\ shoppingList' # <<>>
                    /\ Len(r.resp.items) = 0 =>
                          shoppingList' = << "No items yet." >>
        /\ shoppingList # <<>> => shoppingList' # <<>>
      ]_vars

\* The backend held no item when it answered /list.
C8_Witness ==
    /\ shoppingList = << NoItemsEntry >>
    /\ items = <<>>

\* C9: no transcript has more than one POST /voice-command, one POST
\* /search or one GET /list, whatever was answered.
C9_NoRetry ==
    \A t \in Transcripts :
        /\ tx[t].nVC = 1
        /\ tx[t].nSearch <= 1
        /\ tx[t].nList <= 1

\* A command failed on the wire, its handling is over and nothing of it is
\* in flight.
C9_Witness ==
    \E t \in Transcripts :
        /\ tx[t].status \in GenericFailures
        /\ \A r \in net : r.tr # t

\* C10: a session of the engine delivers one result at most: between one
\* start() and the next, onresult calls processVoiceCommand once at most.
C10_OneTranscriptPerStart == engine.nres <= 1

\* A session has delivered its result and has not ended yet.
C10_Witness ==
    /\ engine.started
    /\ engine.nres = 1
    /\ Len(tx) = 1

\* The fetches of the initial loads: they are on the wire, or their promise
\* chain has run already.
InitialLoadsIssued ==
    /\ nextId >= 3
    /\ \A r \in net :
          /\ r.id = 1 => r.kind = "list"
          /\ r.id = 2 => r.kind = "suggestions"

\* C11: without a recognition constructor the alert has been shown exactly
\* once, the button is disabled, recognition has never been started, no
\* transcript exists and no /voice-command or /search request is or was
\* issued, while GET /list and GET /suggestions of the initial load were
\* issued; with a constructor there is no alert and the button is enabled.
C11_UnsupportedDisablesVoice ==
    /\ alerts \in {0, 1}
    /\ alerts = 0 => ~disabled
    /\ alerts = 1 =>
          /\ disabled
          /\ engine = IdleEngine
          /\ ~listening
          /\ tx = <<>>
          /\ \A r \in net : r.kind \in {"list", "suggestions"}
          /\ nextId = 3
          /\ InitialLoadsIssued

\* The page without recognition has rendered both initial loads.
C11_Witness ==
    /\ disabled
    /\ alerts = 1
    /\ net = {}
    /\ shoppingList = << "milk (2)" >>
    /\ suggestionsList = << SmartHeading, "mango", "corn", "bread" >>

\* The session is listening: its start event has fired, and no error, no
\* end and no result of it has fired since.
SessionListens(e) == e.started /\ e.startFired /\ e.error = "" /\ e.nres = 0

\* C12: in every state in which recognition is listening the status line
\* reads "[mic] Listening...".  (Stated for sessions that have not delivered
\* their result either, which asks less of the script than the claim does.)
C12_ListeningStatusWhileListening ==
    SessionListens(engine) => statusMessage = "[mic] Listening..."

\* The container holds one entry "name (brand) - $price" per found item, in
\* the order of the response, and nothing else.
ShowsProducts(list, found) ==
    /\ Len(list) = Len(found)
    /\ \A i \in 1..Len(found) :
          list[i] = found[i].name \o " (" \o found[i].brand \o ") - $"
                    \o ToFixed2(found[i].price)

\* The callback of the answered /search fetch r runs in this step.
SearchHandled(r) == r.kind = "search" /\ r.stage = "answered" /\ Ran(r)

\* C13 as stated: whenever the callback of a /search answer with a nonempty
\* found_items runs, the container holds exactly the entries of that answer
\* and the status reads "[found] Found n result(s).", whatever the status
\* field of the answer is.
C13_AsStated ==
    [][ \A r \in net :
          ( SearchHandled(r) /\ Len(r.resp.found) > 0 ) =>
                /\ ShowsProducts(searchResults', r.resp.found)
                /\ statusMessage' = "[found] Found "
                       \o ToString(Len(r.resp.found)) \o " result(s)."
      ]_vars

\* C13, amended: whenever the callback of a /search answer runs, the container
\* holds only entries built from that answer: for status "success" and a
\* nonempty found_items one entry per found item in order, with the status
\* "[found] Found n result(s)."; for any other answer the single entry
\* "No results found.", with the status "[x] Nothing found for: "text"".
C13_SearchResultsReplaced ==
    [][ \A r \in net :
          SearchHandled(r) =>
             IF r.resp.status = "success" /\ Len(r.resp.found) > 0
             THEN /\ ShowsProducts(searchResults', r.resp.found)
                  /\ statusMessage' = "[found] Found "
                         \o ToString(Len(r.resp.found)) \o " result(s)."
             ELSE /\ searchResults' = << "No results found." >>
                  /\ statusMessage' = "[x] Nothing found for: \""
                         \o r.text \o "\""
      ]_vars

\* Two searches found two products each, and the container holds the two
\* entries of the later one only.
C13_Witness ==
    /\ Len(tx) = 2
    /\ \A t \in Transcripts : tx[t].status = "[found] Found 2 result(s)."
    /\ statusMessage = "[found] Found 2 result(s)."
    /\ searchResults = << "tea (Leaf) - $0.50", "milk (Acme) - $2.99" >>

\* C14: whenever the callback of a /suggestions answer runs, the suggestions
\* container holds the heading "Smart Suggestions:" followed by the seasonal
\* suggestions in order and then the frequently bought ones in order, or by
\* the single entry "No suggestions available." when both are empty, and
\* nothing of what it held before.
C14_SuggestionsRendered ==
    [][ \A r \in net :
          ( r.kind = "suggestions" /\ r.stage = "answered" /\ Ran(r) ) =>
             suggestionsList' =
                IF r.resp.seasonal = <<>> /\ r.resp.frequent = <<>>
                THEN << "Smart Suggestions:", "No suggestions available." >>
                ELSE << "Smart Suggestions:" >> \o r.resp.seasonal
                        \o r.resp.frequent
      ]_vars

\* A command has been answered with substitutes, and the container holds
\* the smart suggestions: two seasonal ones, then the frequently bought one.
C14_Witness ==
    /\ suggestionsList = << "Smart Suggestions:", "mango", "corn", "bread" >>
    /\ \E t \in Transcripts : tx[t].vc = "success"
    /\ \A r \in net : r.kind # "suggestions" /\ r.kind # "vc"

\* C15: recognition.start() is never called while a session is started or
\* starting: no click calls start() on a session that start() began and
\* whose end event has not fired.
C15_NoStartWhileStarted ==
    [][ ( engine'.last # engine.last /\ engine'.last \in ClickOps
          /\ engine'.last # "click:stop" ) =>
                ~engine.started
      ]_vars

\* Nothing is left that could write the status line: no session is started
\* and no fetch is on the wire or waiting for its callback.
Quiescent == ~engine.started /\ net = {}

\* C16: the page is never at "[wait] Processing..." with no request in flight
\* and recognition idle, the state in which no callback is left to replace
\* that text by an outcome.
C16_ProcessingIsReplaced ==
    Quiescent => statusMessage # "[wait] Processing..."

\* C17: in every state the button reads "[stop] Stop" exactly when listening
\* is true, and "[micro] Start Listening" exactly when it is false.
C17_LabelAgreesWithListening ==
    /\ buttonLabel = "[stop] Stop" <=> listening
    /\ buttonLabel = "[micro] Start Listening" <=> ~listening

\* C18: the lang of the POST /voice-command issued for a transcript is "es"
\* exactly when the session that delivers the transcript was started with
\* recognition.lang = "es-ES".
C18_LangIsSessionLanguage ==
    [][ \A f \in NewFetches :
          f.kind = "vc" => ( f.lang = "es" <=> engine.lang = "es-ES" )
      ]_vars

\* The list view shows the item set the backend holds now.
ShowsCurrentItems ==
    IF items = <<>> THEN shoppingList = << "No items yet." >>
    ELSE ShowsSnapshot(shoppingList, items)

\* C19: a /list response that arrives after the response of a later request
\* does not overwrite the newer snapshot: when the list view shows the
\* backend's current item set, the callback of a /list answer that was taken
\* before the last update of the backend leaves the view as it is.
C19_NewerSnapshotStays ==
    [][ \A r \in net :
          ( r.kind = "list" /\ r.stage = "answered" /\ Ran(r)
            /\ r.resp.ver < ver /\ ShowsCurrentItems ) =>
                shoppingList' = shoppingList
      ]_vars

====
